---- MODULE Spec2Model ----
(***************************************************************************)
(* LetsPrint: invoice generation for Shopify orders.                       *)
(*                                                                         *)
(* The model covers the print route (single-order generation and the       *)
(* creation of bulk PrintJob rows), the invoice settings route, the        *)
(* bulk-print page's cancel-job intent, the Bull queue processor of        *)
(* BulkInvoiceService, the local FileStorageService, the download route,   *)
(* the browser and pages of PDFService and the GST calculator.             *)
(* Strings are TLA+ strings and are handled character by                   *)
(* character where the code does so (sanitising, joining and resolving     *)
(* paths, prefix tests, URI decoding).                                     *)
(***************************************************************************)
EXTENDS Integers, Sequences, FiniteSets, TLC

VARIABLES
    settings,     \* Settings table: shop -> Null or [invoicePrefix, invoiceStartNumber]
    invoices,     \* Invoice table: set of rows
    printJobs,    \* PrintJob table: job id -> Null or row
    req,          \* the print route's requests in flight: slot -> local state
    issued,       \* history: shop -> the last sequence number issued, the highest before it
    now,          \* Date.now() at the store and archive calls
    files,        \* the file system: absolute path -> content
    access,       \* history: the last storage get/delete/download and its outcome
    queue,        \* the Bull queue "invoice-generation": its jobs, in the order added
    run,          \* the queue processor's local state in its current or last run,
                  \* with the history of the items it attempted and of the
                  \* cancel request that arrived during the run
    pdf,          \* one PDFService instance: its browser, the open pages and
                  \* the position of the render in progress
    gst           \* one call of calculateGST: its context and its result

vars == <<settings, invoices, printJobs, req, issued, now, files, access, queue, run,
          pdf, gst>>

Null == [null |-> TRUE]

-----------------------------------------------------------------------------
(* Bounds of the model *)

NReq == 2          \* print requests in flight at once
MaxJobs == 2       \* PrintJob rows created in one behaviour

Shops == {"a.io", "b.io"}
Reqs == 1..NReq
JobIds == 1..MaxJobs

-----------------------------------------------------------------------------
(* Strings *)

Chars(s) == {SubSeq(s, i, i) : i \in 1..Len(s)}

StartsWith(s, p) == Len(p) <= Len(s) /\ SubSeq(s, 1, Len(p)) = p

SafeChars ==
    Chars("abcdefghijklmnopqrstuvwxyzABCDEFGHIJKLMNOPQRSTUVWXYZ0123456789-_.")

RECURSIVE Sanitize(_)
Sanitize(s) ==
    IF s = "" THEN ""
    ELSE (IF SubSeq(s, 1, 1) \in SafeChars THEN SubSeq(s, 1, 1) ELSE "-")
         \o Sanitize(SubSeq(s, 2, Len(s)))

sanitizeShopName(shop) == Sanitize(shop)

sanitizeFilename(filename) == Sanitize(filename)

\* s split at every "/" (String.prototype.split("/"))
RECURSIVE SplitFrom(_, _, _)
SplitFrom(s, i, cur) ==
    IF i > Len(s) THEN <<cur>>
    ELSE IF SubSeq(s, i, i) = "/" THEN <<cur>> \o SplitFrom(s, i + 1, "")
    ELSE SplitFrom(s, i + 1, cur \o SubSeq(s, i, i))

Split(s) == SplitFrom(s, 1, "")

\* the segments of an absolute path with "", "." and ".." resolved
RECURSIVE NormalizeSegs(_, _)
NormalizeSegs(segs, acc) ==
    IF segs = <<>> THEN acc
    ELSE LET h == Head(segs)
             t == Tail(segs)
         IN  IF h = "" \/ h = "." THEN NormalizeSegs(t, acc)
             ELSE IF h = ".."
                  THEN NormalizeSegs(t, IF acc = <<>> THEN acc
                                        ELSE SubSeq(acc, 1, Len(acc) - 1))
                  ELSE NormalizeSegs(t, Append(acc, h))

RECURSIVE JoinSegs(_)
JoinSegs(segs) ==
    IF segs = <<>> THEN "" ELSE "/" \o Head(segs) \o JoinSegs(Tail(segs))

\* path.resolve / path.normalize of an absolute path
PathResolve(p) ==
    LET segs == NormalizeSegs(Split(p), <<>>)
    IN  IF segs = <<>> THEN "/" ELSE JoinSegs(segs)

storagePath == "/var/www/letsprint/storage/invoices"

storageSegs == NormalizeSegs(Split(storagePath), <<>>)

resolvedStoragePath == PathResolve(storagePath)

\* path.join(this.storagePath, fileKey)
StoragePathOf(fileKey) ==
    LET segs == NormalizeSegs(Split(fileKey), storageSegs)
    IN  IF segs = <<>> THEN "/" ELSE JoinSegs(segs)

-----------------------------------------------------------------------------
(* Settings and invoice numbers *)

DefaultPrefix == "INV"
DefaultStartNumber == 1001

Prefixes == {"INV", "GST", ""}
StartNumbers == {999, 0}

\* settings?.invoicePrefix || "INV"
PrefixOf(st) ==
    IF st = Null \/ st.invoicePrefix = "" THEN DefaultPrefix ELSE st.invoicePrefix

\* (settings?.invoiceStartNumber || 1001)
StartOf(st) ==
    IF st = Null \/ st.invoiceStartNumber = 0 THEN DefaultStartNumber
    ELSE st.invoiceStartNumber

NextSeqOffByOne(st, invoiceCount) == StartOf(st) + invoiceCount + 1

NextSeq(st, invoiceCount) == StartOf(st) + invoiceCount

InvoiceNumber(st, invoiceCount) ==
    PrefixOf(st) \o "-" \o ToString(NextSeq(st, invoiceCount))

InvoiceCount(shop) == Cardinality({i \in invoices : i.shop = shop})

-----------------------------------------------------------------------------
(* FileStorageService: storeFile *)

FileKey(shop, timestamp, filename) ==
    sanitizeShopName(shop) \o "/" \o ToString(timestamp) \o "-"
        \o sanitizeFilename(filename)

\* encodeURIComponent on the characters a file key holds
RECURSIVE encodeURIComponent(_)
encodeURIComponent(s) ==
    IF s = "" THEN ""
    ELSE (IF SubSeq(s, 1, 1) = "/" THEN "%2F"
          ELSE IF SubSeq(s, 1, 1) = "%" THEN "%25"
          ELSE SubSeq(s, 1, 1))
         \o encodeURIComponent(SubSeq(s, 2, Len(s)))

DownloadUrl(fileKey) == "/api/download/" \o encodeURIComponent(fileKey)

Write(fs, path, data) ==
    [p \in DOMAIN fs \cup {path} |-> IF p = path THEN data ELSE fs[p]]

-----------------------------------------------------------------------------
(* The print route, POST /api/print, with one order id *)

IdleReq ==
    [pc |-> "idle", shop |-> "", job |-> 0, st |-> Null, n |-> 0,
     invoiceNumber |-> "", fileKey |-> ""]

FreeJobIds == {j \in JobIds : printJobs[j] = Null}

NewJobId == CHOOSE j \in FreeJobIds : \A k \in FreeJobIds : j <= k

SingleJobStatus == "processing"

\* lines 134-142: the PrintJob row of a single-order request
CreateSingleJob(r, shop) ==
    /\ req[r].pc = "idle"
    /\ FreeJobIds # {}
    /\ printJobs' = [printJobs EXCEPT ![NewJobId] =
           [shop |-> shop, jobType |-> "single", status |-> SingleJobStatus,
            progress |-> 0, downloadUrl |-> "", fileKey |-> "", error |-> ""]]
    /\ req' = [req EXCEPT ![r] = [IdleReq EXCEPT !.pc = "fetch", !.shop = shop,
                                                  !.job = NewJobId]]
    /\ UNCHANGED <<settings, invoices, issued, now, pdf, gst, files, access, queue, run>>

\* a step of the try block that throws: control goes to the catch block
Throw(r) ==
    req' = [req EXCEPT ![r] = [IdleReq EXCEPT !.pc = "catch", !.shop = req[r].shop,
                                              !.job = req[r].job]]

\* lines 146-170: fetchOrder and the GST breakdown
FetchOrder(r) ==
    /\ req[r].pc = "fetch"
    /\ \E ok \in BOOLEAN :
          IF ok THEN req' = [req EXCEPT ![r].pc = "settings"] ELSE Throw(r)
    /\ UNCHANGED <<settings, invoices, printJobs, issued, now, pdf, gst, files, access,
                   queue, run>>

\* lines 173-175: db.settings.findUnique
ReadSettings(r) ==
    /\ req[r].pc = "settings"
    /\ \E ok \in BOOLEAN :
          IF ok THEN req' = [req EXCEPT ![r].pc = "count",
                                        ![r].st = settings[req[r].shop]]
          ELSE Throw(r)
    /\ UNCHANGED <<settings, invoices, printJobs, issued, now, pdf, gst, files, access,
                   queue, run>>

\* lines 177-183: db.invoice.count and the invoice number
CountInvoices(r) ==
    /\ req[r].pc = "count"
    /\ \E ok \in BOOLEAN :
          IF ok
          THEN req' = [req EXCEPT
                  ![r].pc = "render", ![r].st = Null,
                  ![r].n = NextSeq(req[r].st, InvoiceCount(req[r].shop)),
                  ![r].invoiceNumber =
                      InvoiceNumber(req[r].st, InvoiceCount(req[r].shop))]
          ELSE Throw(r)
    /\ UNCHANGED <<settings, invoices, printJobs, issued, now, pdf, gst, files, access,
                   queue, run>>

\* lines 186-193: pdfService.generateOrderPDF with the invoice number
RenderPDF(r) ==
    /\ req[r].pc = "render"
    /\ \E ok \in BOOLEAN :
          IF ok THEN req' = [req EXCEPT ![r].pc = "store"] ELSE Throw(r)
    /\ UNCHANGED <<settings, invoices, printJobs, issued, now, pdf, gst, files, access,
                   queue, run>>

\* lines 202-204: fileStorage.storeFile (part_001 lines 200-229)
StoreFile(r) ==
    /\ req[r].pc = "store"
    /\ \E ok \in BOOLEAN :
          IF ok
          THEN LET filename == "invoice-" \o req[r].invoiceNumber \o ".pdf"
                   fileKey == FileKey(req[r].shop, now, filename)
               IN  /\ files' = Write(files, StoragePathOf(fileKey),
                                     [kind |-> "pdf", shop |-> req[r].shop,
                                      invoiceNumber |-> req[r].invoiceNumber])
                   /\ req' = [req EXCEPT ![r].pc = "insert",
                                         ![r].fileKey = fileKey]
          ELSE Throw(r) /\ UNCHANGED files
    /\ UNCHANGED <<settings, invoices, printJobs, issued, now, pdf, gst, access, queue, run>>

\* the unique index Invoice_invoiceNumber_key (migration.sql line 109)
NumberTaken(shop, invoiceNumber) ==
    \E i \in invoices : i.invoiceNumber = invoiceNumber

\* lines 210-222: db.invoice.create
InsertInvoice(r) ==
    /\ req[r].pc = "insert"
    /\ \E ok \in BOOLEAN :
          IF ok /\ ~NumberTaken(req[r].shop, req[r].invoiceNumber)
          THEN /\ invoices' = invoices \cup
                      {[shop |-> req[r].shop, invoiceNumber |-> req[r].invoiceNumber,
                        fileKey |-> req[r].fileKey, status |-> "generated",
                        by |-> req[r].job]}
               /\ issued' = [issued EXCEPT ![req[r].shop] =
                      [last |-> req[r].n,
                       before |-> IF @.last > @.before THEN @.last ELSE @.before]]
               /\ req' = [req EXCEPT ![r].pc = "update"]
          ELSE Throw(r) /\ UNCHANGED <<invoices, issued>>
    /\ UNCHANGED <<settings, printJobs, now, pdf, gst, files, access, queue, run>>

\* lines 225-234: db.printJob.update to completed
CompleteJob(r) ==
    /\ req[r].pc = "update"
    /\ \E ok \in BOOLEAN :
          IF ok
          THEN /\ printJobs' = [printJobs EXCEPT ![req[r].job] =
                      [@ EXCEPT !.status = "completed", !.progress = 100,
                                !.downloadUrl = DownloadUrl(req[r].fileKey),
                                !.fileKey = req[r].fileKey]]
               /\ req' = [req EXCEPT ![r].pc = "close"]
          ELSE Throw(r) /\ UNCHANGED printJobs
    /\ UNCHANGED <<settings, invoices, issued, now, pdf, gst, files, access, queue, run>>

\* line 237: pdfService.closeBrowser, then the response
CloseBrowser(r) ==
    /\ req[r].pc = "close"
    /\ \E ok \in BOOLEAN :
          IF ok THEN req' = [req EXCEPT ![r].pc = "done"] ELSE Throw(r)
    /\ UNCHANGED <<settings, invoices, printJobs, issued, now, pdf, gst, files, access,
                   queue, run>>

\* lines 248-262: the catch block; when its own update throws, the row stays
FailJob(r) ==
    /\ req[r].pc = "catch"
    /\ \E ok \in BOOLEAN :
          IF ok
          THEN /\ printJobs' = [printJobs EXCEPT ![req[r].job] =
                      [@ EXCEPT !.status = "failed", !.error = "error"]]
               /\ req' = [req EXCEPT ![r].pc = "failed"]
          ELSE /\ req' = [req EXCEPT ![r].pc = "error"]
               /\ UNCHANGED printJobs
    /\ UNCHANGED <<settings, invoices, issued, now, pdf, gst, files, access, queue, run>>

\* lines 239-247 and 284-292: the response is sent, the request is over
Respond(r) ==
    /\ req[r].pc \in {"done", "failed", "error"}
    /\ req' = [req EXCEPT ![r] = IdleReq]
    /\ UNCHANGED <<settings, invoices, printJobs, issued, now, pdf, gst, files, access,
                   queue, run>>

BulkJobStatus == "queued"

\* lines 263-283 (and part_004 lines 82-110): the PrintJob row of a bulk request
CreateBulkJob(shop) ==
    /\ FreeJobIds # {}
    /\ printJobs' = [printJobs EXCEPT ![NewJobId] =
           [shop |-> shop, jobType |-> "bulk", status |-> BulkJobStatus,
            progress |-> 0, downloadUrl |-> "", fileKey |-> "", error |-> ""]]
    /\ UNCHANGED <<settings, invoices, req, issued, now, pdf, gst, files, access, queue, run>>

-----------------------------------------------------------------------------
(* The bulk-print page's cancel-job intent *)

CancelledRow(row) == [row EXCEPT !.status = "cancelled"]

\* history: the number of items attempted when the cancel request arrived
NoteCancel(jobId) ==
    IF run.phase = "loop" /\ queue[run.job].data.jobId = jobId /\ run.cancelAt = -1
    THEN [run EXCEPT !.cancelAt = Len(run.attempted)]
    ELSE run

\* part_004 lines 112-125: the row is found by id alone
CancelJob(shop, jobId) ==
    /\ printJobs[jobId] # Null
    /\ printJobs' = [printJobs EXCEPT ![jobId] = CancelledRow(@)]
    /\ run' = NoteCancel(jobId)
    /\ UNCHANGED <<settings, invoices, req, issued, now, pdf, gst, files, access, queue>>

-----------------------------------------------------------------------------
(* The settings page's save-invoice-settings intent *)

SaveInvoiceSettings(shop, prefix, start) ==
    /\ settings' = [settings EXCEPT ![shop] =
           [invoicePrefix |-> IF settings[shop] = Null /\ prefix = ""
                              THEN DefaultPrefix ELSE prefix,
            invoiceStartNumber |-> start]]
    /\ UNCHANGED <<invoices, printJobs, req, issued, now, pdf, gst, files, access, queue, run>>

-----------------------------------------------------------------------------
(* BulkInvoiceService and the Bull queue processor *)

MaxOrders == 2     \* order ids in one bulk job
MaxQueue == 1      \* jobs added to the Bull queue in one behaviour
MaxWait == 2       \* clock ticks counted while an item's generation is pending

\* createBulkJob: attempts: 3, backoff: {type: "exponential", delay: 2000}
Attempts == 3
BackoffDelay == 2000

OrderIds == {"o1", "o2"}

NoRun ==
    [job |-> 0, phase |-> "idle", i |-> 0, completed |-> 0, failed |-> 0,
     generatedFiles |-> <<>>, attempted |-> <<>>, outcomes |-> <<>>,
     zipFileName |-> "", cancelAt |-> -1, elapsed |-> 0]

OrderLists ==
    UNION {[1..k -> OrderIds] : k \in 1..MaxOrders}

\* createBulkJob: invoiceQueue.add(jobData, {attempts: 3, backoff: ...});
\* history: earlier holds the order ids generated in the attempts that are over
AddBulkJob(jobId, orderIds) ==
    /\ Len(queue) < MaxQueue
    /\ printJobs[jobId] # Null
    /\ printJobs[jobId].jobType = "bulk"
    /\ queue' = Append(queue,
           [data |-> [jobId |-> jobId, shop |-> printJobs[jobId].shop,
                      orderIds |-> orderIds],
            state |-> "waiting", attemptsMade |-> 0, progress |-> Null,
            delays |-> <<>>, started |-> 0, earlier |-> {}])
    /\ UNCHANGED <<settings, invoices, printJobs, req, issued, now, pdf, gst, files, access,
                   run>>

\* lines 169-176: the processor takes a waiting job
StartRun(q) ==
    /\ run.phase \in {"idle", "done", "threw"}
    /\ q \in 1..Len(queue)
    /\ queue[q].state = "waiting"
    /\ queue' = [queue EXCEPT ![q].state = "active", ![q].started = @ + 1]
    /\ run' = [NoRun EXCEPT !.job = q, !.phase = "loop"]
    /\ UNCHANGED <<settings, invoices, printJobs, req, issued, now, pdf, gst, files, access>>

\* Math.round(((i + 1) / total) * 100), i counted from 0
Percent(i, total) == (200 * (i + 1) + total) \div (2 * total)

\* the file generateInvoiceFn(orderId, shop) writes and names
InvoiceFileName(orderId) == "invoice-" \o orderId \o ".pdf"

ShopPath(shop, fileName) == StoragePathOf(shop \o "/" \o fileName)

Outcomes == {"ok", "generate-throws", "progress-throws", "never-returns"}

\* Bull's exponential backoff after the given number of attempts
Backoff(attemptsMade) == (2 ^ attemptsMade - 1) * BackoffDelay

AttemptFailedNoLimit(job) ==
    [job EXCEPT !.attemptsMade = @ + 1,
                !.state = "delayed",
                !.delays = Append(@, Backoff(job.attemptsMade + 1))]

\* Bull's handling of a processor that threw: while attempts remain the job
\* is delayed by the backoff and then waits again, else it has failed
AttemptFailed(job) ==
    IF job.attemptsMade + 1 < Attempts
    THEN [job EXCEPT !.attemptsMade = @ + 1,
                     !.state = "delayed",
                     !.delays = Append(@, Backoff(job.attemptsMade + 1))]
    ELSE [job EXCEPT !.attemptsMade = @ + 1, !.state = "failed"]

\* the backoff of a delayed job has passed
PromoteDelayed(q) ==
    /\ q \in 1..Len(queue)
    /\ queue[q].state = "delayed"
    /\ queue' = [queue EXCEPT ![q].state = "waiting"]
    /\ UNCHANGED <<settings, invoices, printJobs, req, issued, now, pdf, gst, files,
                   access, run>>

\* the clock ticks while the processor awaits generateInvoiceFn
WaitTick ==
    /\ run.phase = "awaiting"
    /\ run.elapsed < MaxWait
    /\ run' = [run EXCEPT !.elapsed = @ + 1]
    /\ UNCHANGED <<settings, invoices, printJobs, req, issued, now, pdf, gst, files,
                   access, queue>>

ProcessItemRethrow(outcome) ==
    /\ run.phase = "loop"
    /\ run.i < Len(queue[run.job].data.orderIds)
    /\ outcome # "ok"
    /\ run' = [run EXCEPT !.phase = "threw",
                          !.attempted = Append(@, queue[run.job].data.orderIds[run.i + 1]),
                          !.outcomes = Append(@, outcome)]
    /\ queue' = [queue EXCEPT ![run.job] = AttemptFailed(@)]
    /\ UNCHANGED <<settings, invoices, printJobs, req, issued, now, pdf, gst, files, access>>

\* lines 178-198: one iteration of the loop.  With "generate-throws" the call
\* of generateInvoiceFn throws; with "progress-throws" the file is generated
\* and counted, and job.progress then throws inside the same try block;
\* with "never-returns" the promise of generateInvoiceFn stays pending and
\* the processor stays at its await.
ProcessItem(outcome) ==
    /\ run.phase = "loop"
    /\ run.i < Len(queue[run.job].data.orderIds)
    /\ outcome \in Outcomes
    /\ LET job == queue[run.job]
           total == Len(job.data.orderIds)
           orderId == job.data.orderIds[run.i + 1]
           fileName == InvoiceFileName(orderId)
           generated == outcome \in {"ok", "progress-throws"}
           completed == IF generated THEN run.completed + 1 ELSE run.completed
           failed == IF outcome \in {"generate-throws", "progress-throws"}
                     THEN run.failed + 1 ELSE run.failed
       IN  IF outcome = "never-returns"
           THEN /\ run' = [run EXCEPT !.phase = "awaiting",
                                      !.attempted = Append(@, orderId),
                                      !.outcomes = Append(@, outcome)]
                /\ UNCHANGED <<files, queue>>
           ELSE /\ run' = [run EXCEPT
                       !.i = @ + 1,
                       !.phase = IF run.i + 1 < total THEN "loop" ELSE "zip",
                       !.completed = completed,
                       !.failed = failed,
                       !.generatedFiles = IF generated THEN Append(@, fileName) ELSE @,
                       !.attempted = Append(@, orderId),
                       !.outcomes = Append(@, outcome)]
                /\ files' = IF generated
                            THEN Write(files, ShopPath(job.data.shop, fileName),
                                       [kind |-> "pdf", shop |-> job.data.shop,
                                        orderId |-> orderId])
                            ELSE files
                /\ queue' = IF outcome = "ok"
                            THEN [queue EXCEPT ![run.job].progress =
                                     [percent |-> Percent(run.i, total), total |-> total,
                                      completed |-> completed, failed |-> failed,
                                      downloadUrl |-> ""]]
                            ELSE queue
    /\ UNCHANGED <<settings, invoices, printJobs, req, issued, now, pdf, gst, access>>

\* the order ids for which generateInvoiceFn returned in the current attempt
GeneratedOrderIds(r) ==
    {r.attempted[k] : k \in {n \in 1..Len(r.attempted) :
                                 r.outcomes[n] \in {"ok", "progress-throws"}}}

ZipFileName(timestamp) == "invoices-" \o ToString(timestamp) \o ".zip"

\* getDownloadUrl
ZipDownloadUrl(shop, fileName) == "/api/download/" \o fileName \o "?shop=" \o shop

\* the entries archive.file() adds: the named files that exist
RECURSIVE ArchiveEntries(_, _)
ArchiveEntries(shop, invoiceFiles) ==
    IF invoiceFiles = <<>> THEN <<>>
    ELSE (IF ShopPath(shop, Head(invoiceFiles)) \in DOMAIN files
          THEN <<Head(invoiceFiles)>> ELSE <<>>)
         \o ArchiveEntries(shop, Tail(invoiceFiles))

\* lines 200-219: createZipFile, the final progress update and the return
FinishRun(ok) ==
    /\ run.phase = "zip"
    /\ LET job == queue[run.job]
           shop == job.data.shop
           zipFileName == ZipFileName(now)
       IN  IF ok
           THEN /\ files' = Write(files, ShopPath(shop, zipFileName),
                                  [kind |-> "zip", shop |-> shop,
                                   entries |-> ArchiveEntries(shop, run.generatedFiles)])
                /\ queue' = [queue EXCEPT ![run.job] =
                       [@ EXCEPT !.state = "completed",
                                 !.progress =
                                     [percent |-> 100,
                                      total |-> Len(job.data.orderIds),
                                      completed |-> run.completed,
                                      failed |-> run.failed,
                                      downloadUrl |-> ZipDownloadUrl(shop, zipFileName)]]]
                /\ run' = [run EXCEPT !.phase = "done", !.zipFileName = zipFileName]
           ELSE /\ queue' = [queue EXCEPT ![run.job] =
                       [AttemptFailed(@) EXCEPT
                           !.earlier = @ \cup GeneratedOrderIds(run)]]
                /\ run' = [run EXCEPT !.phase = "threw"]
                /\ UNCHANGED files
    /\ UNCHANGED <<settings, invoices, printJobs, req, issued, now, pdf, gst, access>>

-----------------------------------------------------------------------------
(* FileStorageService: getFile and deleteFile *)

IsFile(p) == p \in DOMAIN files

IsDirectory(p) == p = "/" \/ \E f \in DOMAIN files : StartsWith(f, p \o "/")

existsSync(p) == IsFile(p) \/ IsDirectory(p)

\* lines 238-244 and 281-287: the security check
PathAllowed(shop, fileKey) ==
    StartsWith(PathResolve(StoragePathOf(fileKey)), resolvedStoragePath)

\* lines 234-256: the path read, or "" when getFile throws
getFile(shop, fileKey) ==
    LET filePath == StoragePathOf(fileKey)
    IN  IF ~PathAllowed(shop, fileKey) THEN ""
        ELSE IF ~existsSync(filePath) THEN ""
        ELSE IF ~IsFile(filePath) THEN ""
        ELSE filePath

\* lines 277-298: the path unlinked, or "" when deleteFile returns false
deleteFile(shop, fileKey) ==
    LET filePath == StoragePathOf(fileKey)
    IN  IF ~PathAllowed(shop, fileKey) THEN ""
        ELSE IF existsSync(filePath) /\ IsFile(filePath) THEN filePath
        ELSE ""

Remove(fs, path) == [p \in DOMAIN fs \ {path} |-> fs[p]]

StorageGet(shop, fileKey) ==
    /\ LET read == getFile(shop, fileKey)
       IN  access' = [op |-> "get", shop |-> shop, key |-> fileKey,
                      status |-> IF read = "" THEN 404 ELSE 200, path |-> read]
    /\ UNCHANGED <<settings, invoices, printJobs, req, issued, now, pdf, gst, files, queue, run>>

StorageDelete(shop, fileKey) ==
    /\ LET removed == deleteFile(shop, fileKey)
       IN  /\ access' = [op |-> "delete", shop |-> shop, key |-> fileKey,
                          status |-> IF removed = "" THEN 404 ELSE 200,
                          path |-> removed]
           /\ files' = IF removed = "" THEN files ELSE Remove(files, removed)
    /\ UNCHANGED <<settings, invoices, printJobs, req, issued, now, pdf, gst, queue, run>>

-----------------------------------------------------------------------------
(* The download route, GET /api/download/:fileKey *)

PercentEscapes ==
    [e \in {"%2F", "%2f", "%2E", "%2e", "%25"} |->
        IF e \in {"%2F", "%2f"} THEN "/" ELSE IF e \in {"%2E", "%2e"} THEN "." ELSE "%"]

\* decodeURIComponent throws URIError on a "%" that starts no escape
RECURSIVE Decodable(_)
Decodable(s) ==
    IF s = "" THEN TRUE
    ELSE IF SubSeq(s, 1, 1) # "%" THEN Decodable(SubSeq(s, 2, Len(s)))
    ELSE /\ Len(s) >= 3
         /\ SubSeq(s, 1, 3) \in DOMAIN PercentEscapes
         /\ Decodable(SubSeq(s, 4, Len(s)))

RECURSIVE decodeURIComponent(_)
decodeURIComponent(s) ==
    IF s = "" THEN ""
    ELSE IF SubSeq(s, 1, 1) # "%"
         THEN SubSeq(s, 1, 1) \o decodeURIComponent(SubSeq(s, 2, Len(s)))
         ELSE PercentEscapes[SubSeq(s, 1, 3)] \o decodeURIComponent(SubSeq(s, 4, Len(s)))

\* the $fileKey segment of a URL of the route /api/download/$fileKey: what
\* follows the route's prefix, up to the query string
DownloadParam(url) ==
    LET marks == {k \in 1..Len(url) : SubSeq(url, k, k) = "?"}
        stop == IF marks = {} THEN Len(url) + 1
                ELSE CHOOSE k \in marks : \A m \in marks : k <= m
    IN  SubSeq(url, Len("/api/download/") + 1, stop - 1)

FindInvoiceAnyShop(shop, fileKey) ==
    {i \in invoices : i.fileKey = fileKey}

\* lines 18-24: db.invoice.findFirst({where: {fileKey, shop}})
FindInvoice(shop, fileKey) ==
    {i \in invoices : i.fileKey = fileKey /\ i.shop = shop}

\* lines 6-53: the loader, for an authenticated shop
Download(shop, param) ==
    /\ access' =
          IF param = ""
          THEN [op |-> "download", shop |-> shop, key |-> param, status |-> 400,
                path |-> ""]
          ELSE IF ~Decodable(param)
          THEN [op |-> "download", shop |-> shop, key |-> param, status |-> 500,
                path |-> ""]
          ELSE LET decodedFileKey == decodeURIComponent(param)
               IN  IF FindInvoice(shop, decodedFileKey) = {}
                   THEN [op |-> "download", shop |-> shop, key |-> decodedFileKey,
                         status |-> 404, path |-> ""]
                   ELSE LET read == getFile(shop, decodedFileKey)
                        IN  [op |-> "download", shop |-> shop,
                             key |-> decodedFileKey,
                             status |-> IF read = "" THEN 404 ELSE 200,
                             path |-> read]
    /\ UNCHANGED <<settings, invoices, printJobs, req, issued, now, pdf, gst, files, queue, run>>

\* the owning shop requests the downloadUrl a completed bulk job reports
FetchBulkDownload(q) ==
    /\ q \in 1..Len(queue)
    /\ queue[q].state = "completed"
    /\ Download(queue[q].data.shop, DownloadParam(queue[q].progress.downloadUrl))

\* the keys a caller asks for: keys of stored invoices of any shop, the same
\* behind a detour, and keys that climb out of the storage directory
StaticKeys ==
    {"", "../invoices-old/dump.pdf", "../../../../../etc/passwd", "a.io", "b.io/.."}

RequestKeys ==
    StaticKeys \cup {i.fileKey : i \in invoices}
               \cup {"a.io/../" \o i.fileKey : i \in invoices}

RequestParams ==
    RequestKeys \cup {"..%2Finvoices-old%2Fdump.pdf", "%2E%2E/%2e%2e/x", "../%"}

\* files of the host that no shop's storage holds
HostFiles ==
    [p \in {"/etc/passwd", "/var/www/letsprint/storage/invoices-old/dump.pdf"} |->
        [kind |-> "host"]]

-----------------------------------------------------------------------------

-----------------------------------------------------------------------------
(* PDFService: the Puppeteer browser it caches and the pages of its renders *)

MaxRenders == 3    \* generateOrderPDF calls on one PDFService instance

MaxDays == 1       \* days that pass between renders

MsPerDay == 86400000

NoPdf ==
    [browser |-> 0, launched |-> 0, dead |-> {}, failedCtx |-> {}, pages |-> {},
     opened |-> 0, pc |-> "idle", page |-> 0, threw |-> FALSE, renders |-> 0,
     last |-> "none", html |-> "", rendered |-> {}]

\* the orders rendered, each with its breakdown, business profile and layout
RenderOrders == {"1001", "1002"}

Pad2(n) == IF n < 10 THEN "0" \o ToString(n) ELSE ToString(n)

\* formatDate(new Date(timestamp).toISOString()) in the default format
\* DD/MM/YYYY, for timestamps in January 1970
formatDate(timestamp) == Pad2(timestamp \div MsPerDay + 1) \o "/01/1970"

\* generateFooter: the closing lines of every document
generateFooter(timestamp) ==
    "<div class=footer><p>This is a computer-generated invoice and does not "
    \o "require a signature.</p><p>Generated on " \o formatDate(timestamp)
    \o "</p></div>"

\* generateOrderHTML: the parts made from the order, and the footer
generateOrderHTML(order, timestamp) ==
    "<html><head><title>Order " \o order \o "</title></head><body>"
    \o "<div class=invoice-container>" \o generateFooter(timestamp)
    \o "</div></body></html>"

PdfFrame ==
    UNCHANGED <<settings, invoices, printJobs, req, issued, now, files, access,
                queue, run, gst>>

\* generateOrderPDF's catch block: the call returns {success: false}
RenderFailed(p) == [p EXCEPT !.pc = "idle", !.page = 0, !.threw = FALSE,
                             !.last = "failure"]

\* generateOrderPDF, lines 92-103: the steps before the browser is touched
GenerateOrderPDF(order, ok) ==
    /\ pdf.pc = "idle"
    /\ pdf.renders < MaxRenders
    /\ pdf' = IF ok
              THEN LET html == generateOrderHTML(order, now)
                   IN  [pdf EXCEPT !.pc = "initBrowser", !.renders = @ + 1,
                                   !.html = html,
                                   !.rendered = @ \cup {[order |-> order, html |-> html]}]
              ELSE RenderFailed([pdf EXCEPT !.renders = @ + 1])
    /\ PdfFrame

\* a day passes on the server's clock
DayPasses ==
    /\ now + MsPerDay <= MaxDays * MsPerDay + 1
    /\ now' = now + MsPerDay
    /\ UNCHANGED <<settings, invoices, printJobs, req, issued, files, access,
                   queue, run, pdf, gst>>

\* initBrowser: launch only when no browser is cached
initBrowser(ok) ==
    /\ pdf.pc = "initBrowser"
    /\ IF pdf.browser = 0
       THEN pdf' = IF ok
                   THEN [pdf EXCEPT !.browser = pdf.launched + 1,
                                    !.launched = @ + 1, !.pc = "newPage"]
                   ELSE RenderFailed(pdf)
       ELSE ok /\ pdf' = [pdf EXCEPT !.pc = "newPage"]
    /\ PdfFrame

\* browser.newPage(), line 808, before the try block
NewPage(ok) ==
    /\ pdf.pc = "newPage"
    /\ pdf.browser \in pdf.dead => ~ok
    /\ pdf' = IF ok
              THEN [pdf EXCEPT !.page = pdf.opened + 1, !.opened = @ + 1,
                               !.pages = @ \cup {pdf.opened + 1},
                               !.pc = "setContent"]
              ELSE RenderFailed(pdf)
    /\ PdfFrame

EngineOutcomes == {"ok", "timeout", "crash"}

\* a call on the page inside the try block: it returns, it times out, or the
\* browser process dies and takes its pages with it
PageCall(p, outcome, nextPc) ==
    IF outcome = "ok" THEN [p EXCEPT !.pc = nextPc]
    ELSE IF outcome = "timeout"
    THEN [p EXCEPT !.failedCtx = @ \cup {p.browser}, !.threw = TRUE,
                   !.pc = "finally"]
    ELSE [p EXCEPT !.failedCtx = @ \cup {p.browser}, !.dead = @ \cup {p.browser},
                   !.pages = {}, !.threw = TRUE, !.pc = "finally"]

\* page.setContent, line 811
SetContent(outcome) ==
    /\ pdf.pc = "setContent"
    /\ pdf' = PageCall(pdf, outcome, "pdf")
    /\ PdfFrame

\* page.pdf, line 826
PagePdf(outcome) ==
    /\ pdf.pc = "pdf"
    /\ pdf' = PageCall(pdf, outcome, "finally")
    /\ PdfFrame

ClosePageOnSuccessOnly ==
    /\ pdf.pc = "finally"
    /\ pdf' = IF pdf.threw THEN RenderFailed(pdf)
              ELSE [pdf EXCEPT !.pages = @ \ {pdf.page}, !.pc = "idle",
                               !.page = 0, !.last = "success"]
    /\ PdfFrame

\* the finally block, lines 828-830, and the return of generateOrderPDF;
\* page.close() on a dead browser rejects, its pages being gone already
ClosePage ==
    /\ pdf.pc = "finally"
    /\ pdf' = IF pdf.browser \in pdf.dead \/ pdf.threw
              THEN RenderFailed([pdf EXCEPT !.pages = @ \ {pdf.page}])
              ELSE [pdf EXCEPT !.pages = @ \ {pdf.page}, !.pc = "idle",
                               !.page = 0, !.last = "success"]
    /\ PdfFrame

\* closeBrowser, lines 78-83: the field is cleared after browser.close() resolved
closeBrowser(ok) ==
    /\ pdf.pc = "idle"
    /\ pdf.browser # 0
    /\ pdf' = IF ok THEN [pdf EXCEPT !.browser = 0, !.pages = {}, !.last = "closed"]
              ELSE [pdf EXCEPT !.last = "close-rejected"]
    /\ PdfFrame

-----------------------------------------------------------------------------
(* gstCalculator: validateGSTContext, determineGSTRate, normalizeStateCode, *)
(* calculateGST.  Amounts are whole paise (1/100 rupee); rates are whole    *)
(* percents.                                                                 *)

\* DEFAULT_GST_CONFIG: threshold 1000 rupees, lowRate 0.05, highRate 0.12
threshold == 100000
lowRate == 5
highRate == 12

INDIAN_STATES ==
    {"AN", "AP", "AR", "AS", "BR", "CH", "CG", "DN", "DD", "DL", "GA", "GJ",
     "HR", "HP", "JK", "JH", "KA", "KL", "LD", "MP", "MH", "MN", "ML", "MZ",
     "NL", "OR", "PY", "PB", "RJ", "SK", "TN", "TG", "TR", "UP", "UT", "WB"}

LowerCase == "abcdefghijklmnopqrstuvwxyz"
UpperCase == "ABCDEFGHIJKLMNOPQRSTUVWXYZ"

UpperChar(c) ==
    IF \E i \in 1..Len(LowerCase) : SubSeq(LowerCase, i, i) = c
    THEN LET i == CHOOSE i \in 1..Len(LowerCase) : SubSeq(LowerCase, i, i) = c
         IN  SubSeq(UpperCase, i, i)
    ELSE c

RECURSIVE toUpperCase(_)
toUpperCase(s) ==
    IF s = "" THEN "" ELSE UpperChar(SubSeq(s, 1, 1)) \o toUpperCase(SubSeq(s, 2, Len(s)))

LowerChar(c) ==
    IF \E i \in 1..Len(UpperCase) : SubSeq(UpperCase, i, i) = c
    THEN LET i == CHOOSE i \in 1..Len(UpperCase) : SubSeq(UpperCase, i, i) = c
         IN  SubSeq(LowerCase, i, i)
    ELSE c

RECURSIVE toLowerCase(_)
toLowerCase(s) ==
    IF s = "" THEN "" ELSE LowerChar(SubSeq(s, 1, 1)) \o toLowerCase(SubSeq(s, 2, Len(s)))

\* String.prototype.includes
includes(s, sub) ==
    \E i \in 1..(Len(s) - Len(sub) + 1) : SubSeq(s, i, i + Len(sub) - 1) = sub

RECURSIVE trimStart(_)
trimStart(s) ==
    IF s # "" /\ SubSeq(s, 1, 1) = " " THEN trimStart(SubSeq(s, 2, Len(s))) ELSE s

RECURSIVE trimEnd(_)
trimEnd(s) ==
    IF s # "" /\ SubSeq(s, Len(s), Len(s)) = " "
    THEN trimEnd(SubSeq(s, 1, Len(s) - 1)) ELSE s

trim(s) == trimEnd(trimStart(s))

\* errors.join(', ')
RECURSIVE JoinErrors(_)
JoinErrors(errors) ==
    IF errors = <<>> THEN ""
    ELSE IF Len(errors) = 1 THEN errors[1]
    ELSE errors[1] \o ", " \o JoinErrors(Tail(errors))

\* Math.round(n / d) for d > 0: the nearest integer, a half going up
MathRound(n, d) == (2 * n + d) \div (2 * d)

ErrOrderTotal == "Order total must be greater than 0"
ErrSubtotal == "Subtotal must be greater than 0"
ErrCustomerRequired == "Customer state is required"
ErrStoreRequired == "Store state is required"
ErrCustomerInvalid(code) == "Invalid customer state code: " \o code
ErrStoreInvalid(code) == "Invalid store state code: " \o code

Cond(test, error) == IF test THEN <<error>> ELSE <<>>

validateFirstOnly(context) ==
    LET errors ==
            Cond(context.orderTotal <= 0, ErrOrderTotal)
         \o Cond(context.subtotal <= 0, ErrSubtotal)
         \o Cond(trim(context.customerState) = "", ErrCustomerRequired)
         \o Cond(trim(context.storeState) = "", ErrStoreRequired)
         \o Cond(context.customerState # ""
                 /\ toUpperCase(context.customerState) \notin INDIAN_STATES,
                 ErrCustomerInvalid(context.customerState))
         \o Cond(context.storeState # ""
                 /\ toUpperCase(context.storeState) \notin INDIAN_STATES,
                 ErrStoreInvalid(context.storeState))
    IN  [isValid |-> errors = <<>>,
         errors |-> IF errors = <<>> THEN <<>> ELSE <<errors[1]>>]

validateGSTContext(context) ==
    LET errors ==
            Cond(context.orderTotal <= 0, ErrOrderTotal)
         \o Cond(context.subtotal <= 0, ErrSubtotal)
         \o Cond(trim(context.customerState) = "", ErrCustomerRequired)
         \o Cond(trim(context.storeState) = "", ErrStoreRequired)
         \o Cond(context.customerState # ""
                 /\ toUpperCase(context.customerState) \notin INDIAN_STATES,
                 ErrCustomerInvalid(context.customerState))
         \o Cond(context.storeState # ""
                 /\ toUpperCase(context.storeState) \notin INDIAN_STATES,
                 ErrStoreInvalid(context.storeState))
    IN  [isValid |-> errors = <<>>, errors |-> errors]

determineGSTRate(orderTotal) == IF orderTotal < threshold THEN lowRate ELSE highRate

\* normalizeStateCode: the normalized code, or the error it throws
normalizeStateCode(stateCode) ==
    IF trim(stateCode) = ""
    THEN [threw |-> TRUE, value |-> "", error |-> "State code cannot be empty"]
    ELSE LET normalized == toUpperCase(trim(stateCode))
         IN  IF normalized \notin INDIAN_STATES
             THEN [threw |-> TRUE, value |-> "",
                   error |-> "Invalid state code: " \o stateCode]
             ELSE [threw |-> FALSE, value |-> normalized, error |-> ""]

CalculationError(error) ==
    [success |-> FALSE, error |-> error, code |-> "CALCULATION_ERROR"]

\* TEXTILE_HSN_CODES
TEXTILE_HSN_CODES ==
    [textiles |-> "6109", cotton |-> "6109.10", polyester |-> "6109.90",
     blend |-> "6109.90", default |-> "6109"]

\* getHSNCode(productType, hsnCode) of gstCalculator; "" is an absent argument
getHSNCode(productType, hsnCode) ==
    IF trim(hsnCode) # "" THEN trim(hsnCode)
    ELSE LET type == toLowerCase(productType)
         IN  IF productType # "" /\ (includes(type, "blend") \/ includes(type, "mix"))
             THEN TEXTILE_HSN_CODES.blend
             ELSE IF productType # "" /\ includes(type, "cotton")
             THEN TEXTILE_HSN_CODES.cotton
             ELSE IF productType # "" /\ includes(type, "polyester")
             THEN TEXTILE_HSN_CODES.polyester
             ELSE TEXTILE_HSN_CODES.default

\* extractTShirtDetails: the material a line item's properties give, the
\* last property named material or fabric that no earlier branch takes
RECURSIVE MaterialOf(_, _)
MaterialOf(properties, material) ==
    IF properties = <<>> THEN material
    ELSE LET prop == Head(properties)
             key == toLowerCase(prop.name)
             taken == \/ includes(key, "size")
                      \/ includes(key, "color") \/ includes(key, "colour")
                      \/ includes(key, "design") \/ includes(key, "print")
         IN  MaterialOf(Tail(properties),
                        IF ~taken /\ (includes(key, "material") \/ includes(key, "fabric"))
                        THEN prop.value ELSE material)

\* GSTService.determineProductType
RECURSIVE determineProductType(_)
determineProductType(lineItems) ==
    IF lineItems = <<>> THEN "textiles"
    ELSE LET item == Head(lineItems)
             material == MaterialOf(item.properties, "")
             title == toLowerCase(item.title)
         IN  IF material # "" THEN material
             ELSE IF includes(title, "cotton") THEN "cotton"
             ELSE IF includes(title, "polyester") THEN "polyester"
             ELSE IF includes(title, "blend") \/ includes(title, "mix") THEN "blend"
             ELSE determineProductType(Tail(lineItems))

HalfUnsplit(totalGstAmount) == totalGstAmount

\* Math.round((totalGstAmount / 2) * 100) / 100
Half(totalGstAmount) == MathRound(totalGstAmount, 2)

calculateGST(context) ==
    LET validation == validateGSTContext(context)
        customerState == normalizeStateCode(context.customerState)
        storeState == normalizeStateCode(context.storeState)
        gstRate == determineGSTRate(context.orderTotal)
        taxableAmount == context.subtotal
        \* Math.round((taxableAmount * gstRate) * 100) / 100
        totalGstAmount == MathRound(taxableAmount * gstRate, 100)
        hsnCode == getHSNCode(context.productType, context.hsnCode)
    IN  IF ~validation.isValid
        THEN [success |-> FALSE, error |-> JoinErrors(validation.errors),
              code |-> "VALIDATION_ERROR"]
        ELSE IF customerState.threw THEN CalculationError(customerState.error)
        ELSE IF storeState.threw THEN CalculationError(storeState.error)
        ELSE IF customerState.value = storeState.value
        THEN [success |-> TRUE,
              breakdown |-> [gstType |-> "CGST_SGST", gstRate |-> gstRate,
                             cgstAmount |-> Half(totalGstAmount),
                             sgstAmount |-> Half(totalGstAmount),
                             totalGstAmount |-> totalGstAmount,
                             taxableAmount |-> taxableAmount,
                             hsnCode |-> hsnCode]]
        ELSE [success |-> TRUE,
              breakdown |-> [gstType |-> "IGST", gstRate |-> gstRate,
                             igstAmount |-> totalGstAmount,
                             totalGstAmount |-> totalGstAmount,
                             taxableAmount |-> taxableAmount,
                             hsnCode |-> hsnCode]]

\* the contexts the callers pass: amounts and state codes of every kind
\* without a product hint, and valid amounts and states with the hints
Amounts == {-100, 0, 1020, 80000, 99990, 100000, 150000}
StateCodes == {"MH", "mh", " mh ", "DL", "", "  ", "XX"}
ProductTypes ==
    {"", "cotton t-shirt", "Polyester Blend", "cotton-polyester blend",
     "cotton polyester", "mixed fabric", "unknown fabric"}
HsnCodes == {"", " 1234 "}

Contexts ==
    [orderTotal : Amounts, subtotal : Amounts,
     customerState : StateCodes, storeState : StateCodes,
     productType : {""}, hsnCode : {""}]
    \cup
    [orderTotal : {80000}, subtotal : {80000},
     customerState : {"MH", "DL"}, storeState : {"MH"},
     productType : ProductTypes, hsnCode : HsnCodes]

\* the orders calculateOrderGST gets: the context its helpers extract, with
\* the product type still to be determined, and the line items
OrderContexts ==
    [orderTotal : {80000}, subtotal : {80000},
     customerState : {"MH", "DL", "XX"}, storeState : {"MH"},
     productType : {""}, hsnCode : {""}]

Titles == {"Cotton Blend Tee", "Cotton Polyester Tee", "Polyester Mix Tee", "Plain Tee"}

PropertyLists ==
    {<<>>,
     <<[name |-> "Size", value |-> "L"]>>,
     <<[name |-> "Fabric", value |-> "Polyester"]>>,
     <<[name |-> "Material size", value |-> "Cotton"]>>}

LineItems == [title : Titles, properties : PropertyLists]

LineItemLists ==
    {<<>>} \cup {<<i>> : i \in LineItems}
           \cup {<<[title |-> "Plain Tee", properties |-> <<>>], i>> : i \in LineItems}

NoGst == [via |-> "", context |-> Null, lineItems |-> <<>>, result |-> Null]

GstFrame ==
    UNCHANGED <<settings, invoices, printJobs, req, issued, now, files, access,
                queue, run, pdf>>

\* a direct call of calculateGST
CalculateGST ==
    /\ gst.via = "calculateGST"
    /\ gst.result = Null
    /\ gst' = [gst EXCEPT !.result = calculateGST(gst.context)]
    /\ GstFrame

\* GSTService.calculateOrderGST: the product type comes from the line items,
\* and a calculation that failed is thrown as an error
CalculateOrderGST ==
    /\ gst.via = "calculateOrderGST"
    /\ gst.result = Null
    /\ LET context == [gst.context EXCEPT
                          !.productType = determineProductType(gst.lineItems)]
           result == calculateGST(context)
       IN  gst' = [gst EXCEPT
                      !.context = context,
                      !.result = IF result.success THEN result
                                 ELSE [success |-> FALSE, threw |-> TRUE,
                                       error |-> "GST calculation failed: "
                                                 \o result.error]]
    /\ GstFrame

NoAccess == [op |-> "none"]

Init ==
    /\ settings = [s \in Shops |-> Null]
    /\ invoices = {}
    /\ printJobs = [j \in JobIds |-> Null]
    /\ req = [r \in Reqs |-> IdleReq]
    /\ issued = [s \in Shops |-> [last |-> 0, before |-> 0]]
    /\ now = 1
    /\ files = <<>>
    /\ access = NoAccess
    /\ queue = <<>>
    /\ run = NoRun
    /\ pdf = NoPdf
    /\ gst = NoGst

PrintStep(r) ==
    \/ \E shop \in Shops : CreateSingleJob(r, shop)
    \/ FetchOrder(r)
    \/ ReadSettings(r)
    \/ CountInvoices(r)
    \/ RenderPDF(r)
    \/ StoreFile(r)
    \/ InsertInvoice(r)
    \/ CompleteJob(r)
    \/ CloseBrowser(r)
    \/ FailJob(r)
    \/ Respond(r)

\* the print route under concurrent requests, with the bulk-print page
Next ==
    \/ \E r \in Reqs : PrintStep(r)
    \/ \E shop \in Shops : CreateBulkJob(shop)
    \/ \E shop \in Shops, jobId \in JobIds : CancelJob(shop, jobId)

Spec == Init /\ [][Next]_vars

\* one print request at a time, with the settings page
NextNumbering ==
    \/ PrintStep(1)
    \/ \E shop \in Shops, prefix \in Prefixes, start \in StartNumbers :
          SaveInvoiceSettings(shop, prefix, start)

SpecNumbering == Init /\ [][NextNumbering]_vars

\* a shop that has generated three invoices with the default settings
PriorInvoice(shop, k) ==
    [shop |-> shop, invoiceNumber |-> InvoiceNumber(Null, k),
     fileKey |-> FileKey(shop, 1, "invoice-" \o InvoiceNumber(Null, k) \o ".pdf"),
     status |-> "generated", by |-> 0]

InitPrior ==
    /\ settings = [s \in Shops |-> Null]
    /\ invoices = {PriorInvoice("a.io", k) : k \in 0..2}
    /\ printJobs = [j \in JobIds |-> Null]
    /\ req = [r \in Reqs |-> IdleReq]
    /\ issued = [s \in Shops |->
           IF s = "a.io" THEN [last |-> 1003, before |-> 1002]
           ELSE [last |-> 0, before |-> 0]]
    /\ now = 1
    /\ files = <<>>
    /\ access = NoAccess
    /\ queue = <<>>
    /\ run = NoRun
    /\ pdf = NoPdf
    /\ gst = NoGst

SpecPrior == InitPrior /\ [][NextNumbering]_vars

\* the bulk-print page and the queue processor
NextBulk ==
    \/ \E shop \in Shops : CreateBulkJob(shop)
    \/ \E jobId \in JobIds, orderIds \in OrderLists : AddBulkJob(jobId, orderIds)
    \/ \E q \in 1..MaxQueue : StartRun(q)
    \/ \E outcome \in Outcomes : ProcessItem(outcome)
    \/ WaitTick
    \/ \E ok \in BOOLEAN : FinishRun(ok)
    \/ \E q \in 1..MaxQueue : PromoteDelayed(q)
    \/ \E shop \in Shops, jobId \in JobIds : CancelJob(shop, jobId)
    \/ \E q \in 1..MaxQueue : FetchBulkDownload(q)

SpecBulk == Init /\ [][NextBulk]_vars

\* the same with a worker that keeps working: Bull runs a waiting job,
\* promotes a delayed one and lets the processor take its next step; the
\* requests of the shops come when the shops send them
BulkFairness ==
    /\ WF_vars(\E q \in 1..MaxQueue : StartRun(q))
    /\ WF_vars(\E outcome \in Outcomes : ProcessItem(outcome))
    /\ WF_vars(\E ok \in BOOLEAN : FinishRun(ok))
    /\ WF_vars(\E q \in 1..MaxQueue : PromoteDelayed(q))
    /\ WF_vars(WaitTick)

SpecBulkFair == Init /\ [][NextBulk]_vars /\ BulkFairness

\* the state after shop a.io has generated one invoice with the default
\* settings, and shop b.io has saved its settings and generated one
StoredRow(shop, job, invoiceNumber) ==
    [shop |-> shop, invoiceNumber |-> invoiceNumber,
     fileKey |-> FileKey(shop, 1, "invoice-" \o invoiceNumber \o ".pdf"),
     status |-> "generated", by |-> job]

CompletedRow(shop, fileKey) ==
    [shop |-> shop, jobType |-> "single", status |-> "completed", progress |-> 100,
     downloadUrl |-> DownloadUrl(fileKey), fileKey |-> fileKey, error |-> ""]

AfterTwoInvoices(hostFiles) ==
    LET rowA == StoredRow("a.io", 1, InvoiceNumber(Null, 0))
        stB == [invoicePrefix |-> "GST", invoiceStartNumber |-> 999]
        rowB == StoredRow("b.io", 2, InvoiceNumber(stB, 0))
    IN  /\ settings = [s \in Shops |-> IF s = "b.io" THEN stB ELSE Null]
        /\ invoices = {rowA, rowB}
        /\ printJobs = [j \in JobIds |->
               IF j = 1 THEN CompletedRow("a.io", rowA.fileKey)
               ELSE IF j = 2 THEN CompletedRow("b.io", rowB.fileKey)
               ELSE Null]
        /\ req = [r \in Reqs |-> IdleReq]
        /\ issued = [s \in Shops |->
               [last |-> IF s = "b.io" THEN 999 ELSE 1001, before |-> 0]]
        /\ now = 1
        /\ files = Write(Write(hostFiles, StoragePathOf(rowA.fileKey),
                               [kind |-> "pdf", shop |-> "a.io",
                                invoiceNumber |-> rowA.invoiceNumber]),
                         StoragePathOf(rowB.fileKey),
                         [kind |-> "pdf", shop |-> "b.io",
                          invoiceNumber |-> rowB.invoiceNumber])
        /\ access = NoAccess
        /\ queue = <<>>
        /\ run = NoRun
        /\ pdf = NoPdf
        /\ gst = NoGst

InitStore == AfterTwoInvoices(HostFiles)

\* callers of the storage and of the download route
NextStore ==
    \/ \E shop \in Shops, fileKey \in RequestKeys : StorageGet(shop, fileKey)
    \/ \E shop \in Shops, fileKey \in RequestKeys : StorageDelete(shop, fileKey)
    \/ \E shop \in Shops, param \in RequestParams : Download(shop, param)

SpecStore == InitStore /\ [][NextStore]_vars

\* callers of one PDFService instance
NextRender ==
    \/ \E order \in RenderOrders, ok \in BOOLEAN : GenerateOrderPDF(order, ok)
    \/ DayPasses
    \/ \E ok \in BOOLEAN : initBrowser(ok)
    \/ \E ok \in BOOLEAN : NewPage(ok)
    \/ \E outcome \in EngineOutcomes : SetContent(outcome)
    \/ \E outcome \in EngineOutcomes : PagePdf(outcome)
    \/ ClosePage
    \/ \E ok \in BOOLEAN : closeBrowser(ok)

SpecRender == Init /\ [][NextRender]_vars

\* one call of calculateGST on any of the contexts
InitGst ==
    /\ settings = [s \in Shops |-> Null]
    /\ invoices = {}
    /\ printJobs = [j \in JobIds |-> Null]
    /\ req = [r \in Reqs |-> IdleReq]
    /\ issued = [s \in Shops |-> [last |-> 0, before |-> 0]]
    /\ now = 1
    /\ files = <<>>
    /\ access = NoAccess
    /\ queue = <<>>
    /\ run = NoRun
    /\ pdf = NoPdf
    /\ gst \in [via : {"calculateGST"}, context : Contexts,
                lineItems : {<<>>}, result : {Null}]
               \cup [via : {"calculateOrderGST"}, context : OrderContexts,
                     lineItems : LineItemLists, result : {Null}]

NextGst ==
    \/ CalculateGST
    \/ CalculateOrderGST

SpecGst == InitGst /\ [][NextGst]_vars

-----------------------------------------------------------------------------
(* Claims *)

\* the print route leaves the stored invoices SpecStore starts from
StoreStartUnreached == ~AfterTwoInvoices(<<>>)

\* the document of request r has been rendered with the number r computed
Rendered(r) == req[r].pc \in {"store", "insert", "update", "close", "done"}

\* C1: two single-order generations of one shop that are in flight together
\* never put the same invoice number into their documents.
C1_ConcurrentNumbersDiffer ==
    \A r1, r2 \in Reqs :
        (r1 # r2 /\ Rendered(r1) /\ Rendered(r2) /\ req[r1].shop = req[r2].shop)
            => req[r1].invoiceNumber # req[r2].invoiceNumber

\* C2: every invoice number issued for a shop is strictly greater than every
\* number issued for that shop before, also when the settings are saved
\* again between generations.
C2_NumbersIncrease ==
    \A s \in Shops : issued[s].last # 0 => issued[s].last > issued[s].before

\* C3: a single-order PrintJob that ended failed has left no Invoice row
\* created by its request.
C3_FailedLeavesNoInvoice ==
    \A j \in JobIds :
        (printJobs[j] # Null /\ printJobs[j].jobType = "single"
                             /\ printJobs[j].status = "failed")
            => ~(\E i \in invoices : i.by = j)

TerminalStatuses == {"completed", "failed", "cancelled"}

\* C4: once a PrintJob is completed, failed or cancelled, no step changes
\* its status.
C4_TerminalAbsorbing ==
    [][\A j \in JobIds :
          (printJobs[j] # Null /\ printJobs[j].status \in TerminalStatuses)
              => printJobs'[j].status = printJobs[j].status]_vars

LegalMoves ==
    {<<"queued", "processing">>, <<"processing", "completed">>,
     <<"processing", "failed">>, <<"processing", "cancelled">>}

\* C10: every PrintJob is created queued, and every later change of its
\* status is queued -> processing or processing -> completed/failed/cancelled.
C10_StateMachine ==
    [][\A j \in JobIds :
          /\ (printJobs[j] = Null /\ printJobs'[j] # Null)
                 => printJobs'[j].status = "queued"
          /\ (printJobs[j] # Null /\ printJobs'[j].status # printJobs[j].status)
                 => <<printJobs[j].status, printJobs'[j].status>> \in LegalMoves]_vars

RECURSIVE Failures(_)
Failures(outcomes) ==
    IF outcomes = <<>> THEN 0
    ELSE (IF Head(outcomes) \in {"generate-throws", "progress-throws"} THEN 1 ELSE 0)
         + Failures(Tail(outcomes))

\* C5: in a bulk run every failure of an item is caught and adds exactly one
\* to the failed counter, the items are attempted once each in list order,
\* and the run leaves the loop only after the last item.
C5_ItemFailuresContained ==
    run.job # 0 =>
        LET orderIds == queue[run.job].data.orderIds
        IN  /\ Len(run.attempted) <= Len(orderIds)
            /\ run.attempted = SubSeq(orderIds, 1, Len(run.attempted))
            /\ run.failed = Failures(run.outcomes)
            /\ run.phase \in {"zip", "done", "threw"} => run.attempted = orderIds

C5_Witness ==
    /\ run.phase = "done"
    /\ Len(run.outcomes) >= 2
    /\ run.outcomes[1] = "generate-throws"
    /\ run.outcomes[2] = "ok"
    /\ run.failed = 1

\* C6: a bulk run over N order ids in which k items failed and N - k > 0
\* ends completed with completedCount = N - k, failedCount = k, progress 100,
\* a downloadUrl and an archive of exactly the N - k successful artifacts.
C6_BulkCounts ==
    run.phase = "done" =>
        LET job == queue[run.job]
            N == Len(job.data.orderIds)
            k == Failures(run.outcomes)
            zip == files[ShopPath(job.data.shop, run.zipFileName)]
        IN  N - k > 0 =>
               /\ job.state = "completed"
               /\ job.progress.completed = N - k
               /\ job.progress.failed = k
               /\ job.progress.percent = 100
               /\ job.progress.downloadUrl # ""
               /\ Len(zip.entries) = N - k

\* C9: after a cancel request for the bulk job being processed, the
\* processor starts no further item.
C9_CancelStopsItems ==
    run.cancelAt # -1 => Len(run.attempted) = run.cancelAt

ShopDirectory(shop) == StoragePathOf(sanitizeShopName(shop))

InShopDirectory(path, shop) == StartsWith(path, ShopDirectory(shop) \o "/")

\* C7: storage get and delete on behalf of a shop never read or remove a
\* file outside that shop's own storage directory.
C7_StorageConfined ==
    (access.op \in {"get", "delete"} /\ access.path # "")
        => InShopDirectory(access.path, access.shop)

\* the key resolves to a path outside the shop's storage directory
Escapes(fileKey, shop) == ~InShopDirectory(StoragePathOf(fileKey), shop)

C15_PagesReleased ==
    /\ pdf.pc = "idle" => pdf.pages = {}
    /\ pdf.pc \in {"setContent", "pdf"} => pdf.pages = {pdf.page} /\ pdf.page = pdf.opened
    /\ pdf.pages \subseteq 1..pdf.opened

\* a second render has failed inside the try block and left no page behind
C15_Witness ==
    /\ pdf.pc = "idle"
    /\ pdf.last = "failure"
    /\ pdf.opened >= 2
    /\ pdf.failedCtx # {}
    /\ pdf.pages = {}

\* C16: the browser a render is about to open its page in is never one
\* that an earlier render failed in by a timeout or a crash
C16_FailedContextReplaced ==
    pdf.pc = "newPage" => pdf.browser \notin pdf.failedCtx

\* C17: the rate of a successful calculation is lowRate exactly when the
\* subtotal is below the threshold, and highRate otherwise
C17_RateBySubtotal ==
    (gst.result # Null /\ gst.result.success)
        => gst.result.breakdown.gstRate =
               IF gst.context.subtotal < threshold THEN lowRate ELSE highRate

IsIntrastate ==
    /\ gst.result # Null
    /\ gst.result.success
    /\ gst.result.breakdown.gstType = "CGST_SGST"

Abs(x) == IF x < 0 THEN -x ELSE x

\* C18: for equal normalized state codes the two components sum exactly to
\* the total tax
C18_ComponentsSumExactly ==
    IsIntrastate
        => gst.result.breakdown.cgstAmount + gst.result.breakdown.sgstAmount
               = gst.result.breakdown.totalGstAmount

\* C19: for equal normalized state codes the two components sum to the
\* total tax within one paisa (0.01) and differ by at most one paisa
C19_ComponentsWithinTolerance ==
    IsIntrastate
        => /\ Abs(gst.result.breakdown.cgstAmount + gst.result.breakdown.sgstAmount
                  - gst.result.breakdown.totalGstAmount) <= 1
           /\ Abs(gst.result.breakdown.cgstAmount
                  - gst.result.breakdown.sgstAmount) <= 1

\* an intrastate result whose total tax is an odd number of paise
C19_Witness ==
    /\ IsIntrastate
    /\ gst.result.breakdown.totalGstAmount % 2 = 1
    /\ gst.context.customerState # gst.context.storeState

Contains(s, sub) ==
    \E i \in 1..(Len(s) - Len(sub) + 1) : SubSeq(s, i, i + Len(sub) - 1) = sub

IsStateCode(code) == toUpperCase(trim(code)) \in INDIAN_STATES

\* the conditions a context violates, each named by the words its message has
Violated(context) ==
    {w \in {"Order total", "Subtotal", "ustomer state", "tore state"} :
        \/ w = "Order total" /\ context.orderTotal <= 0
        \/ w = "Subtotal" /\ context.subtotal <= 0
        \/ w = "ustomer state" /\ ~IsStateCode(context.customerState)
        \/ w = "tore state" /\ ~IsStateCode(context.storeState)}

\* C20: a context that violates two or more conditions gets one
\* VALIDATION_ERROR whose message names each of them, and no breakdown
C20_AllViolationsListed ==
    (gst.result # Null /\ Cardinality(Violated(gst.context)) >= 2)
        => /\ ~gst.result.success
           /\ gst.result.code = "VALIDATION_ERROR"
           /\ \A w \in Violated(gst.context) : Contains(gst.result.error, w)
           /\ DOMAIN gst.result = {"success", "error", "code"}

\* a context that violates all four conditions has been answered
C20_Witness ==
    /\ gst.result # Null
    /\ Cardinality(Violated(gst.context)) = 4
    /\ ~gst.result.success


\* C11: after every item of a bulk run, succeeded or failed, the job's
\* progress record holds round(100 * processed / N) and the current counts
C11_ProgressAfterEveryItem ==
    (run.phase \in {"loop", "zip"} /\ run.i >= 1) =>
        LET job == queue[run.job]
            N == Len(job.data.orderIds)
        IN  /\ job.progress # Null
            /\ job.progress.percent = (200 * run.i + N) \div (2 * N)
            /\ job.progress.completed = run.completed
            /\ job.progress.failed = run.failed

ProgressOf(job) == IF job.progress = Null THEN 0 ELSE job.progress.percent

\* C12: the progress of a job that is not completed or failed lies in
\* 0..100 and no step lowers it, also from one attempt to the next
C12_ProgressMonotonic ==
    [][\A q \in 1..Len(queue) :
          queue[q].state \notin {"completed", "failed"} =>
              /\ ProgressOf(queue'[q]) \in 0..100
              /\ ProgressOf(queue'[q]) >= ProgressOf(queue[q])]_vars

\* C13: a job is taken by the processor at most Attempts times, the delays
\* between its attempts grow exponentially, and once it has failed all its
\* attempts are used and it is not running
C13_BoundedRetries ==
    \A q \in 1..Len(queue) :
        LET job == queue[q]
        IN  /\ job.started <= Attempts
            /\ job.attemptsMade <= job.started
            /\ Len(job.delays) <= Attempts - 1
            /\ \A k \in 1..Len(job.delays) :
                  /\ job.delays[k] = (2 ^ k - 1) * BackoffDelay
                  /\ k > 1 => job.delays[k] > 2 * job.delays[k - 1]
            /\ job.state = "failed" =>
                  /\ job.attemptsMade = Attempts
                  /\ job.started = Attempts
                  /\ run.job = q => run.phase = "threw"

\* a job has failed after its third attempt, with two delays between them
C13_Witness ==
    \E q \in 1..Len(queue) :
        /\ queue[q].state = "failed"
        /\ queue[q].started = 3
        /\ queue[q].delays = <<2000, 6000>>

\* C14: no item's generation stays pending for MaxWait ticks: within a bound
\* the item is given up as failed and the run goes on
C14_ItemTimeout ==
    run.phase = "awaiting" => run.elapsed < MaxWait



HasWord(hint, word) == includes(toLowerCase(hint), word)

\* the code the ranking blend/mixed > cotton > polyester gives a hint
RankedCode(hint) ==
    IF HasWord(hint, "blend") \/ HasWord(hint, "mix") THEN "6109.90"
    ELSE IF HasWord(hint, "cotton") THEN "6109.10"
    ELSE IF HasWord(hint, "polyester") THEN "6109.90"
    ELSE "6109"

GivesHint(item) ==
    \/ MaterialOf(item.properties, "") # ""
    \/ \E w \in {"blend", "mix", "cotton", "polyester"} : HasWord(item.title, w)

\* the hint of a calculation: the product type passed, or the material or
\* title of the first line item that gives one
HintOfCalculation ==
    IF gst.via = "calculateGST" THEN gst.context.productType
    ELSE IF \E k \in 1..Len(gst.lineItems) : GivesHint(gst.lineItems[k])
    THEN LET k == CHOOSE k \in 1..Len(gst.lineItems) :
                     /\ GivesHint(gst.lineItems[k])
                     /\ \A j \in 1..(k - 1) : ~GivesHint(gst.lineItems[j])
             item == gst.lineItems[k]
         IN  IF MaterialOf(item.properties, "") # ""
             THEN MaterialOf(item.properties, "") ELSE item.title
    ELSE ""

\* C21: the code inferred from a hint or a line-item title follows the
\* ranking blend/mixed, then cotton, then polyester, then the default code
C21_BlendOutranksCotton ==
    (gst.result # Null /\ gst.result.success /\ trim(gst.context.hsnCode) = "")
        => gst.result.breakdown.hsnCode = RankedCode(HintOfCalculation)


\* C28: with valid amounts, a calculation succeeds exactly when
\* normalizeStateCode accepts both state codes, and it then treats each code
\* as the state normalizeStateCode gives
C28_ValidationAgreesWithNormalization ==
    (gst.result # Null /\ gst.context.orderTotal > 0 /\ gst.context.subtotal > 0)
        => LET customerState == normalizeStateCode(gst.context.customerState)
               storeState == normalizeStateCode(gst.context.storeState)
           IN  /\ gst.result.success <=> (~customerState.threw /\ ~storeState.threw)
               /\ gst.result.success =>
                     (gst.result.breakdown.gstType = "CGST_SGST"
                         <=> customerState.value = storeState.value)


\* C22: any two renders of the same order, breakdown, profile and layout
\* produced the same markup, whenever each was performed
C22_RenderDeterministic ==
    \A a, b \in pdf.rendered : a.order = b.order => a.html = b.html


RECURSIVE Decimal(_)
Decimal(n) ==
    IF n < 10 THEN SubSeq("0123456789", n + 1, n + 1)
    ELSE Decimal(n \div 10) \o SubSeq("0123456789", (n % 10) + 1, (n % 10) + 1)

\* a request computes its invoice number in this step
ComputesNumber(r) == req[r].pc = "count" /\ req'[r].pc = "render"

C24_QueuedJobsFinish ==
    \A j \in JobIds :
        (printJobs[j] # Null /\ printJobs[j].jobType = "bulk"
                             /\ printJobs[j].status = "queued")
            ~> (printJobs[j] # Null
                /\ printJobs[j].status \in {"completed", "failed", "cancelled"})


\* C25: an attempt of a bulk job generates no invoice for an order id that an
\* earlier attempt of the same job has generated
C25_GeneratedOncePerJob ==
    run.phase \in {"loop", "awaiting", "zip", "done"} =>
        GeneratedOrderIds(run) \cap queue[run.job].earlier = {}


\* C26: a cancel-job request of a shop changes a PrintJob only if the job
\* belongs to that shop
C26_CancelOwnJobsOnly ==
    [][\A shop \in Shops, jobId \in JobIds :
          (CancelJob(shop, jobId) /\ printJobs'[jobId] # printJobs[jobId])
              => printJobs[jobId].shop = shop]_vars


\* C27: the insert of a request's invoice is refused for its number only when
\* the request's own shop already holds an invoice with that number
C27_UniquenessPerShop ==
    \A r \in Reqs :
        (req[r].pc = "insert" /\ NumberTaken(req[r].shop, req[r].invoiceNumber))
            => \E i \in invoices : /\ i.shop = req[r].shop
                                   /\ i.invoiceNumber = req[r].invoiceNumber


\* C29: when the owning shop requests the downloadUrl of a completed bulk
\* job, the download answers 200 with the archive that job wrote
C29_BulkDownloadUrlFetches ==
    \A q \in 1..Len(queue) :
        (/\ queue[q].state = "completed"
         /\ access.op = "download"
         /\ access.shop = queue[q].data.shop
         /\ access.key = DownloadParam(queue[q].progress.downloadUrl))
            => /\ access.status = 200
               /\ access.path = ShopPath(queue[q].data.shop, access.key)
               /\ files[access.path].kind = "zip"

\* C30: two requests that have stored their files hold distinct file keys
C30_DistinctKeys ==
    \A r1, r2 \in Reqs :
        (r1 # r2 /\ req[r1].pc \in {"insert", "update", "close", "done"}
                 /\ req[r2].pc \in {"insert", "update", "close", "done"})
            => req[r1].fileKey # req[r2].fileKey

====
